---- MODULE Spec2Model ----
(***************************************************************************)
(* Session and credential flow of the StockVisionData front end:           *)
(* App.jsx (token validation on mount, logout, view router) and            *)
(* Login.jsx (login / registration with one-time codes), together with the *)
(* password regular expression shared by Login.jsx and Portfolio.jsx.      *)
(***************************************************************************)
EXTENDS Integers, Sequences, FiniteSets, Bags, TLC

\* ------------------------------------------------------------------------
\* Bounds of the model
\* ------------------------------------------------------------------------
\* requests of the Login component that may be awaiting a response at once
MaxInFlight == 2
\* longest run of one repeated character in a password handed to validatePassword
MaxPad == 21

\* ------------------------------------------------------------------------
\* JavaScript values
\* ------------------------------------------------------------------------
\* a property that is absent from a JSON body (undefined)
None == "<undefined>"

\* JavaScript truthiness of a string-or-undefined value
Truthy(x) == x \notin {None, ""}

\* a || b || c
Or3(a, b, c) == IF Truthy(a) THEN a ELSE IF Truthy(b) THEN b ELSE c

\* ------------------------------------------------------------------------
\* The password regular expression
\*   /^(?=.*[A-Za-z])(?=.*\d)[A-Za-z\d@#$%^&*!()_+=\-\[\]{}|;:'",.<>/? grave ~]{8,20}$/
\* Strings are sequences of one-character strings.
\* ------------------------------------------------------------------------
Letters ==
    {"A","B","C","D","E","F","G","H","I","J","K","L","M",
     "N","O","P","Q","R","S","T","U","V","W","X","Y","Z",
     "a","b","c","d","e","f","g","h","i","j","k","l","m",
     "n","o","p","q","r","s","t","u","v","w","x","y","z"}

Digits == {"0","1","2","3","4","5","6","7","8","9"}

\* the grave accent, which cannot be written inside a TLA+ string literal
Backtick == "grave"

Symbols ==
    {"@","#","$","%","^","&","*","!","(",")","_","+","=","-","[","]",
     "{","}","|",";",":","'","\"",",",".","<",">","/","?",Backtick,"~"}

\* the bracket expression [A-Za-z\d@#$...~]
PasswordChars == Letters \cup Digits \cup Symbols

\* characters that "." does not match
LineTerminators == {"\n", "\r"}

\* the quantifier {8,20}
MinRepeat == 8
MaxRepeat == 20

\* (?=.*C) tried at position i: ".*" runs over anything but a line
\* terminator, then one character of class C must follow
RECURSIVE LookAhead(_, _, _)
LookAhead(s, i, C) ==
    IF i > Len(s) THEN FALSE
    ELSE IF s[i] \in C THEN TRUE
    ELSE IF s[i] \in LineTerminators THEN FALSE
    ELSE LookAhead(s, i + 1, C)

\* greedy [PasswordChars]{..,20} from position i: how many characters it can take
RECURSIVE ClassRun(_, _, _)
ClassRun(s, i, n) ==
    IF n < MaxRepeat /\ i <= Len(s) /\ s[i] \in PasswordChars
    THEN ClassRun(s, i + 1, n + 1)
    ELSE n

\* re.test(s) for the expression above: both look-aheads at position 1, then
\* some repeat count between 8 and the greedy run must end exactly at "$"
RegexTestNoUpperBound(s) ==
    /\ LookAhead(s, 1, Letters)
    /\ LookAhead(s, 1, Digits)
    /\ Len(s) >= MinRepeat
    /\ \A i \in 1..Len(s) : s[i] \in PasswordChars

RegexTest(s) ==
    /\ LookAhead(s, 1, Letters)
    /\ LookAhead(s, 1, Digits)
    /\ \E n \in MinRepeat..ClassRun(s, 1, 0) : n = Len(s)

\* Login.jsx validatePassword
validatePasswordLengthOnly(pw) == Len(pw) >= MinRepeat /\ Len(pw) <= MaxRepeat

validatePassword(pw) == RegexTest(pw)

\* Portfolio.jsx UserProfile.validatePassword (same expression)
UserProfile_validatePassword(pw) == RegexTest(pw)

\* ------------------------------------------------------------------------
\* Small domains for the user's inputs and the server's answers
\* ------------------------------------------------------------------------
Tokens == {"t1", "t2"}
Usernames == {"", "trader1"}
Emails == {"", "t@x.io"}
Otps == {"", "123456"}

ValidPassword == <<"a","b","c","1","2","3","X","Y">>
NoDigitPassword == <<"a","b","c","d","e","f","g","h">>
Passwords == {<<>>, ValidPassword, NoDigitPassword}

\* messages the front end itself writes into "error"
MsgPasswordFormat == "Password must be 8-20 characters, include at least one letter and one number, and may contain special characters."
MsgOtpSentRegister == "OTP sent to your email. Enter it below to complete registration."
MsgOtpSentLogin == "OTP sent to your email. Enter it below to log in."
MsgRegistered == "Registration successful! Please log in."
MsgExistsFallback == "User/email already exists"
MsgFallback == "Error"
\* UserProfile
MsgNotLoggedIn == "Not logged in"
MsgPasswordChanged == "Password changed!"
MsgUserFallback == "Error fetching user"
\* TechnicalAnalysis
MsgTechnicalFallback == "Failed to fetch technical analysis"
MsgNoConnection == "Failed to connect to server"
\* fetchPrediction
MsgNoTicker == "Please enter a ticker symbol."
MsgPredictionFailed == "Failed to fetch prediction: "
\* Portfolio
MsgDeleted == "Deleted selected tickers."
MsgPortfolioFallback == "Error fetching portfolio"
\* err.message of the exceptions the runtime raises
MsgFetchFailed == "Failed to fetch"
MsgJsonSyntax == "Unexpected token < in JSON at position 0"

\* error texts of the server
DetailExists == "User EXISTS"
DetailOther == "Bad OTP"
ServerMsg == "Refused"

\* the characters of the texts that handleSubmit inspects
Chars(s) ==
    CASE s = DetailExists -> <<"U","s","e","r"," ","E","X","I","S","T","S">>
      [] s = DetailOther -> <<"B","a","d"," ","O","T","P">>
      [] s = ServerMsg -> <<"R","e","f","u","s","e","d">>
      [] OTHER -> <<>>

UpperCase == <<"A","B","C","D","E","F","G","H","I","J","K","L","M",
               "N","O","P","Q","R","S","T","U","V","W","X","Y","Z">>
UpperLetters == {UpperCase[k] : k \in DOMAIN UpperCase}
LowerCase == <<"a","b","c","d","e","f","g","h","i","j","k","l","m",
               "n","o","p","q","r","s","t","u","v","w","x","y","z">>

LowerOf ==
    [c \in UpperLetters |->
        LowerCase[CHOOSE k \in DOMAIN UpperCase : UpperCase[k] = c]]

\* String.prototype.toLowerCase
toLowerCase(cs) ==
    [i \in DOMAIN cs |-> IF cs[i] \in UpperLetters THEN LowerOf[cs[i]] ELSE cs[i]]

\* String.prototype.includes
includes(cs, sub) ==
    \E k \in 0..(Len(cs) - Len(sub)) :
        \A j \in 1..Len(sub) : cs[k + j] = sub[j]

\* (data.detail || "").toLowerCase().includes("exists")
detailSaysExists(detail) ==
    includes(toLowerCase(IF Truthy(detail) THEN Chars(detail) ELSE <<>>),
             <<"e","x","i","s","t","s">>)

\* What a fetch can end with.  type "network": the promise rejects; "text":
\* the body is not JSON, so res.json() rejects; "object": the body is a JSON
\* object with the fields below.
Response(type, ok, detail, msg, access_token, user, is_admin) ==
    [type |-> type, ok |-> ok, detail |-> detail, msg |-> msg,
     access_token |-> access_token, user |-> user, is_admin |-> is_admin]

NetworkError == Response("network", FALSE, None, None, None, None, FALSE)

OtpResponses ==
    {NetworkError}
    \cup {Response("text", ok, None, None, None, None, FALSE) : ok \in BOOLEAN}
    \cup {Response("object", TRUE, None, None, a, None, FALSE) :
            a \in Tokens \cup {None}}
    \cup {Response("object", FALSE, d, m, None, None, FALSE) :
            d \in {None, DetailExists, DetailOther}, m \in {None, ServerMsg}}

MeResponses ==
    {NetworkError}
    \cup {Response("text", ok, None, None, None, None, FALSE) : ok \in BOOLEAN}
    \cup {Response("object", ok, None, None, None, u, adm) :
            ok \in BOOLEAN, u \in {None, "trader1"}, adm \in BOOLEAN}

\* "await fetch(...); await res.json()" throws
FetchThrows(res) == res.type \in {"network", "text"}
FetchMessage(res) == IF res.type = "network" THEN MsgFetchFailed ELSE MsgJsonSyntax

\* new Error(data.detail || data.msg || "Error").message
RejectionMessageMsgFirst(res) == Or3(res.msg, res.detail, MsgFallback)

RejectionMessage(res) == Or3(res.detail, res.msg, MsgFallback)

\* ------------------------------------------------------------------------
\* State
\* ------------------------------------------------------------------------
VARIABLES
    storage,       \* localStorage["token"], "" when the key is absent
    isLoggedIn, isAdmin, token, view,                       \* App state
    me,            \* the mount effect: its local t and the state of its request
    username, email, password, isRegister, error, otpStep, otp,   \* Login state
    inflight,      \* requests of Login handlers that await their response
    accepted,      \* tokens for which /me returned a user since the page loaded
    viaLogin,      \* handleOtpLogin's onLogin caused this page load, and the
                   \* session it restores has not been refused or logged out
    vp,            \* an isolated call of validatePassword
    sent,          \* the request most recently sent by App or a view component
    awaited,       \* requests of fetchPrediction and PortfolioFixed that await
                   \* their response
    loading,       \* App state: a prediction is being fetched
    selectedStock, \* TechnicalAnalysis state
    profile,       \* UserProfile state: oldPassword, newPassword, error, success
    technical,     \* TechnicalAnalysis state: the stock whose data is shown,
                   \* loading, error, and the requests that await their response
    prediction,    \* App state: whether forecast has rows, and error
    portfolio      \* Portfolio state (selected, error, success, the symbols
                   \* listed), its pending requests, and the server's holdings

vars == <<storage, isLoggedIn, isAdmin, token, view, me,
          username, email, password, isRegister, error, otpStep, otp,
          inflight, accepted, viaLogin, vp,
          sent, awaited, loading, selectedStock, profile, technical, prediction, portfolio>>

\* the state of the components behind the login, and everything that the
\* session flow leaves alone
viewLayer == <<sent, awaited, loading, selectedStock, profile, technical, prediction, portfolio>>
others == <<vp, viewLayer>>

appVars == <<isLoggedIn, isAdmin, token, view>>
loginVars == <<username, email, password, isRegister, error, otpStep, otp>>

\* the values that the navigation buttons pass to setView; a variant with a
\* button for the admin panel
ViewsWithAdminButton ==
    {"market-overview", "main", "sentiment", "technical", "portfolio", "profile", "admin"}

Views == {"market-overview", "main", "sentiment", "technical", "portfolio", "profile"}

KindRegisterRequest == "/register-request-otp"
KindRegisterVerify == "/register-verify-otp"
KindLoginRequest == "/login-request-otp"
KindLoginVerify == "/login-verify-otp"

\* a request of a Login handler: the endpoint, the password of the render
\* that issued it (read again after the await by the registration branch)
\* and whether the Login instance that issued it is still mounted
Request(kind, pw, live) == [kind |-> kind, password |-> pw, live |-> live]

VpIdle == [input |-> <<>>, by |-> "none", result |-> FALSE]

\* a request of App or a view component: method, path, the part of the URL
\* that varies, and the token of its Authorization: Bearer header, None when
\* fetch is called without that header
ViewRequest(method, path, arg, authorization) ==
    [method |-> method, path |-> path, arg |-> arg,
     authorization |-> authorization]

NoRequest == ViewRequest("", "", <<>>, None)

\* TechnicalAnalysis: useState("RELIANCE")
InitialStock == "RELIANCE"

\* UserProfile's useState initial values
ProfileFresh == [oldPassword |-> "", newPassword |-> <<>>, error |-> "", success |-> ""]

\* TechnicalAnalysis's useState initial values: technicalData holds zeroes,
\* the data of no stock
TechnicalFresh == [data |-> "none", loading |-> FALSE, error |-> "", pending |-> EmptyBag]

\* App's useState initial values of forecast and error
PredictionFresh == [forecast |-> "empty", error |-> ""]

\* Portfolio's useState initial values, with nothing pending and no holdings
PortfolioFresh ==
    [selected |-> <<>>, error |-> "", success |-> "", listed |-> {},
     runs |-> EmptyBag, fetching |-> 0, server |-> {}]

\* no view component has been mounted
ViewLayerIdle ==
    /\ sent = NoRequest
    /\ awaited = EmptyBag
    /\ loading = FALSE
    /\ selectedStock = InitialStock
    /\ profile = ProfileFresh
    /\ technical = TechnicalFresh
    /\ prediction = PredictionFresh
    /\ portfolio = PortfolioFresh

\* the mount effect of App for the value t read from storage
MountEffectAlwaysFetches(t) ==
    [state |-> "pending", t |-> IF Truthy(t) THEN t ELSE ""]

MountEffect(t) ==
    IF ~Truthy(t) THEN [state |-> "none", t |-> ""]
    ELSE [state |-> "pending", t |-> t]

\* Login's useState initial values
LoginFresh ==
    /\ username = ""
    /\ email = ""
    /\ password = <<>>
    /\ isRegister = FALSE
    /\ error = ""
    /\ otpStep = FALSE
    /\ otp = ""

Init ==
    /\ storage \in {""} \cup Tokens
    /\ isLoggedIn = FALSE
    /\ isAdmin = FALSE
    /\ token = storage
    /\ view = "market-overview"
    /\ me = MountEffect(storage)
    /\ LoginFresh
    /\ inflight = EmptyBag
    /\ accepted = {}
    /\ viaLogin = FALSE
    /\ vp = VpIdle
    /\ ViewLayerIdle

\* ------------------------------------------------------------------------
\* Page load
\* ------------------------------------------------------------------------
\* The page loads (window.location.reload or the browser's reload): every
\* component is constructed anew from the stored token, and the requests and
\* callbacks of the old page are gone.
PageLoad(byLogin) ==
    /\ isLoggedIn' = FALSE
    /\ isAdmin' = FALSE
    /\ token' = storage'
    /\ view' = "market-overview"
    /\ me' = MountEffect(storage')
    /\ username' = ""
    /\ email' = ""
    /\ password' = <<>>
    /\ isRegister' = FALSE
    /\ error' = ""
    /\ otpStep' = FALSE
    /\ otp' = ""
    /\ inflight' = EmptyBag
    /\ accepted' = {}
    /\ viaLogin' = byLogin

\* the user reloads the page
Reload ==
    /\ storage' = storage
    /\ PageLoad(FALSE)
    /\ UNCHANGED others

\* ------------------------------------------------------------------------
\* App: the mount effect's continuation, logout, the view router
\* ------------------------------------------------------------------------
\* /me answered with a JSON body that has a user
UserReturned(res) == res.type = "object" /\ Truthy(res.user)

\* .then(res => res.json()).then(data => ...).catch(...) of the mount effect
MeOutcomeAnyBody(res, t) ==
    IF ~FetchThrows(res)
    THEN [isLoggedIn |-> TRUE, isAdmin |-> res.is_admin, token |-> t]
    ELSE [isLoggedIn |-> FALSE, isAdmin |-> FALSE, token |-> token]

MeOutcomeAdminFromAnyObject(res, t) ==
    IF ~FetchThrows(res) /\ res.type = "object" /\ Truthy(res.user)
    THEN [isLoggedIn |-> TRUE, isAdmin |-> res.is_admin, token |-> t]
    ELSE [isLoggedIn |-> FALSE, isAdmin |-> res.type = "object" /\ res.is_admin,
          token |-> token]

MeOutcome(res, t) ==
    IF ~FetchThrows(res) /\ res.type = "object" /\ Truthy(res.user)
    THEN [isLoggedIn |-> TRUE, isAdmin |-> res.is_admin, token |-> t]
    ELSE [isLoggedIn |-> FALSE, isAdmin |-> FALSE, token |-> token]

\* the requests of a Login instance that unmounts lose their component
Orphaned(reqs) ==
    LET count(r) == IF r \in DOMAIN reqs THEN reqs[r] ELSE 0 IN
    [r \in {[x EXCEPT !.live = FALSE] : x \in DOMAIN reqs} |->
        count(r) + count([r EXCEPT !.live = TRUE])]

\* the token slot after the effect's continuation: no branch touches localStorage
StorageAfterMeClearsRefused(res, st) == IF UserReturned(res) THEN st ELSE ""

StorageAfterMe(res, st) == st

MeResume(res) ==
    /\ me.state = "pending"
    /\ storage' = StorageAfterMe(res, storage)
    /\ LET out == MeOutcome(res, me.t) IN
        /\ isLoggedIn' = out.isLoggedIn
        /\ isAdmin' = out.isAdmin
        /\ token' = out.token
        /\ accepted' = IF UserReturned(res) THEN accepted \cup {me.t} ELSE accepted
        /\ IF out.isLoggedIn
           THEN \* Login is no longer rendered
                /\ username' = ""
                /\ email' = ""
                /\ password' = <<>>
                /\ isRegister' = FALSE
                /\ error' = ""
                /\ otpStep' = FALSE
                /\ otp' = ""
                /\ inflight' = Orphaned(inflight)
           ELSE UNCHANGED <<loginVars, inflight>>
    /\ me' = [me EXCEPT !.state = "done"]
    /\ viaLogin' = (viaLogin /\ UserReturned(res))
    /\ UNCHANGED <<view, others>>

\* what handleLogout leaves in storage
LogoutKeepsStorage(st) == st

LogoutStorage(st) == ""

handleLogout ==
    /\ isLoggedIn
    /\ storage' = LogoutStorage(storage)
    /\ isLoggedIn' = FALSE
    /\ isAdmin' = FALSE
    /\ token' = ""
    /\ view' = "market-overview"
    /\ viaLogin' = FALSE
    /\ UNCHANGED <<me, loginVars, inflight, accepted, others>>

\* the navigation buttons
setView(v) ==
    /\ isLoggedIn
    /\ view # v
    /\ view' = v
    /\ UNCHANGED <<storage, isLoggedIn, isAdmin, token, me,
                   loginVars, inflight, accepted, viaLogin, others>>

\* ------------------------------------------------------------------------
\* Login: the form
\* ------------------------------------------------------------------------
\* Login is rendered only while App's isLoggedIn is false
LoginMounted == ~isLoggedIn

\* onChange of the username, e-mail and password inputs (credential form)
setUsername(u) ==
    /\ LoginMounted /\ ~otpStep /\ u # username
    /\ username' = u
    /\ UNCHANGED <<storage, appVars, me, email, password,
                   isRegister, error, otpStep, otp, inflight, accepted, viaLogin, others>>

setEmail(e) ==
    /\ LoginMounted /\ ~otpStep /\ isRegister /\ e # email
    /\ email' = e
    /\ UNCHANGED <<storage, appVars, me, username, password,
                   isRegister, error, otpStep, otp, inflight, accepted, viaLogin, others>>

\* maxLength={20}: the input never holds more than 20 characters
setPassword(pw) ==
    /\ LoginMounted /\ ~otpStep /\ pw # password
    /\ Len(pw) <= MaxRepeat
    /\ password' = pw
    /\ UNCHANGED <<storage, appVars, me, username, email,
                   isRegister, error, otpStep, otp, inflight, accepted, viaLogin, others>>

\* onChange of the OTP input (OTP form)
setOtp(o) ==
    /\ LoginMounted /\ otpStep /\ o # otp
    /\ otp' = o
    /\ UNCHANGED <<storage, appVars, me, username, email, password,
                   isRegister, error, otpStep, inflight, accepted, viaLogin, others>>

\* the "No account? Register" / "Already have an account? Login" button
toggleRegister ==
    /\ LoginMounted
    /\ isRegister' = ~isRegister
    /\ error' = ""
    /\ UNCHANGED <<storage, appVars, me, username, email, password,
                   otpStep, otp, inflight, accepted, viaLogin, others>>

\* The pattern attribute holds passwordPattern.source.  Browsers compile a
\* pattern attribute with the RegExp "v" flag, under which the unescaped
\* ( ) { } | / inside the bracket expression of passwordPattern are a syntax
\* error, and an attribute that does not compile is ignored.  (A browser
\* that still compiles it with the "u" flag enforces the expression; every
\* step it allows is also a step of this model.)
PatternFlag == "v"
PatternAttributeOk(pw) == PatternFlag = "v" \/ RegexTest(pw)

\* the browser's constraint validation of the credential form: required,
\* type="email", minLength, maxLength, pattern
CredentialFormValid ==
    /\ username # ""
    /\ isRegister => email # ""
    /\ password # <<>>
    /\ Len(password) >= MinRepeat
    /\ Len(password) <= MaxRepeat
    /\ PatternAttributeOk(password)

\* the browser's constraint validation of the OTP form: required
OtpFormValid == otp # ""

\* which branch of handleSubmit runs
SubmitKind ==
    IF isRegister /\ ~otpStep THEN KindRegisterRequest
    ELSE IF isRegister /\ otpStep THEN KindRegisterVerify
    ELSE KindLoginRequest

\* handleSubmit up to its await: onSubmit of the credential form, and of the
\* OTP form while isRegister
handleSubmit ==
    /\ LoginMounted
    /\ BagCardinality(inflight) < MaxInFlight
    /\ IF otpStep THEN isRegister /\ OtpFormValid ELSE CredentialFormValid
    /\ error' = ""
    /\ inflight' = inflight (+) SetToBag({
            Request(SubmitKind,
                    IF SubmitKind = KindRegisterRequest THEN password ELSE <<>>,
                    TRUE)})
    /\ UNCHANGED <<storage, appVars, me, username, email, password,
                   isRegister, otpStep, otp, accepted, viaLogin, others>>

\* handleOtpLogin up to its await: onSubmit of the OTP form while not isRegister
handleOtpLogin ==
    /\ LoginMounted
    /\ BagCardinality(inflight) < MaxInFlight
    /\ otpStep /\ ~isRegister /\ OtpFormValid
    /\ error' = ""
    /\ inflight' = inflight (+) SetToBag({Request(KindLoginVerify, <<>>, TRUE)})
    /\ UNCHANGED <<storage, appVars, me, username, email, password,
                   isRegister, otpStep, otp, accepted, viaLogin, others>>

\* ------------------------------------------------------------------------
\* Login: the handlers after their await
\* ------------------------------------------------------------------------
\* the request answered leaves the set of pending ones; a variant in which it
\* is issued again:
RemoveAndResend(reqs, rq) == reqs

Remove(reqs, rq) == reqs (-) SetToBag({rq})

\* The try block of a handler fails: fetch or res.json() rejects, or the
\* response is not ok and an Error is thrown
Failed(res) == FetchThrows(res) \/ ~res.ok
FailureMessage(res) == IF FetchThrows(res) THEN FetchMessage(res) ELSE RejectionMessage(res)

\* register-request branch: [error, advance], advance telling whether
\* setOtpStep(true) is called
RegisterRequestValidatesFirst(res, pw) ==
    IF ~validatePassword(pw) THEN [error |-> MsgPasswordFormat, advance |-> FALSE]
    ELSE IF Failed(res) THEN [error |-> FailureMessage(res), advance |-> FALSE]
    ELSE [error |-> MsgOtpSentRegister, advance |-> TRUE]

RegisterRequestSkipsValidation(res, pw) ==
    IF Failed(res) THEN [error |-> FailureMessage(res), advance |-> FALSE]
    ELSE [error |-> MsgOtpSentRegister, advance |-> TRUE]

RegisterRequestOutcome(res, pw) ==
    IF FetchThrows(res) THEN [error |-> FetchMessage(res), advance |-> FALSE]
    ELSE IF ~res.ok THEN
        IF detailSaysExists(res.detail)
        THEN [error |-> Or3(res.detail, res.msg, MsgExistsFallback), advance |-> FALSE]
        ELSE [error |-> Or3(res.detail, res.msg, MsgFallback), advance |-> FALSE]
    ELSE IF ~validatePassword(pw) THEN [error |-> MsgPasswordFormat, advance |-> FALSE]
    ELSE [error |-> MsgOtpSentRegister, advance |-> TRUE]

\* whether the state setters called after the await of rq take effect: the
\* Login instance that sent rq is still mounted.  A variant that also asks
\* the form to be in the mode rq was sent from:
SettersTakeEffectSameIntent(rq) ==
    /\ rq.live
    /\ isRegister <=> (rq.kind \in {KindRegisterRequest, KindRegisterVerify})

SettersTakeEffect(rq) == rq.live

\* the outcome for every answer and every captured password
RegisterRequestOutcomes ==
    [res \in OtpResponses, pw \in Passwords |-> RegisterRequestOutcome(res, pw)]

registerRequestResume(rq, res) ==
    /\ rq.kind = KindRegisterRequest
    /\ rq \in BagToSet(inflight)
    /\ IF SettersTakeEffect(rq)
       THEN LET out == RegisterRequestOutcomes[res, rq.password] IN
            /\ error' = out.error
            /\ otpStep' = (otpStep \/ out.advance)
       ELSE UNCHANGED <<error, otpStep>>
    /\ inflight' = Remove(inflight, rq)
    /\ UNCHANGED <<storage, appVars, me, username, email, password,
                   isRegister, otp, accepted, viaLogin, others>>

\* register-verify branch: on failure the catch block only sets the error
RegisterVerifyLeavesFlowOnRejection(res) == ~Failed(res) \/ res.type = "object"

RegisterVerifyLeavesFlow(res) == ~Failed(res)

\* setIsRegister(false) after a verified registration
RegisterVerifiedStaysRegister == TRUE

RegisterVerifiedIsRegister == FALSE

registerVerifyResume(rq, res) ==
    /\ rq.kind = KindRegisterVerify
    /\ rq \in BagToSet(inflight)
    /\ IF ~SettersTakeEffect(rq) THEN UNCHANGED <<isRegister, otpStep, otp, error>>
       ELSE IF RegisterVerifyLeavesFlow(res)
       THEN /\ isRegister' = RegisterVerifiedIsRegister
            /\ otpStep' = FALSE
            /\ otp' = ""
            /\ error' = IF Failed(res) THEN FailureMessage(res) ELSE MsgRegistered
       ELSE /\ error' = FailureMessage(res)
            /\ UNCHANGED <<isRegister, otpStep, otp>>
    /\ inflight' = Remove(inflight, rq)
    /\ UNCHANGED <<storage, appVars, me, username, email, password,
                   accepted, viaLogin, others>>

\* login branch
loginRequestResume(rq, res) ==
    /\ rq.kind = KindLoginRequest
    /\ rq \in BagToSet(inflight)
    /\ IF ~SettersTakeEffect(rq) THEN UNCHANGED <<otpStep, error>>
       ELSE IF Failed(res)
       THEN /\ error' = FailureMessage(res)
            /\ otpStep' = otpStep
       ELSE /\ otpStep' = TRUE
            /\ error' = MsgOtpSentLogin
    /\ inflight' = Remove(inflight, rq)
    /\ UNCHANGED <<storage, appVars, me, username, email, password,
                   isRegister, otp, accepted, viaLogin, others>>

\* handleOtpLogin: the token it writes for an ok response
StoredAfterVerifyFirstToken(res, st) ==
    IF res.type = "object" /\ Truthy(res.access_token) THEN "t1" ELSE st

StoredAfterVerifyClearsWithoutToken(res, st) ==
    IF res.type = "object" /\ Truthy(res.access_token) THEN res.access_token ELSE ""

StoredAfterVerify(res, st) ==
    IF res.type = "object" /\ Truthy(res.access_token) THEN res.access_token ELSE st

\* handleOtpLogin after its await.  On success it stores the token and calls
\* onLogin, which is () => window.location.reload(), also when the Login
\* instance has been unmounted meanwhile.
handleOtpLoginResume(rq, res) ==
    /\ rq.kind = KindLoginVerify
    /\ rq \in BagToSet(inflight)
    /\ IF Failed(res)
       THEN /\ IF SettersTakeEffect(rq) THEN error' = FailureMessage(res)
               ELSE error' = error
            /\ inflight' = Remove(inflight, rq)
            /\ UNCHANGED <<storage, appVars, me, username, email, password,
                           isRegister, otpStep, otp, accepted, viaLogin>>
       ELSE /\ storage' = StoredAfterVerify(res, storage)
            /\ PageLoad(res.type = "object" /\ Truthy(res.access_token))
    /\ UNCHANGED others

\* ------------------------------------------------------------------------
\* The application
\* ------------------------------------------------------------------------
Next ==
    \/ Reload
    \/ \E res \in MeResponses : MeResume(res)
    \/ handleLogout
    \/ \E v \in Views : setView(v)
    \/ \E u \in Usernames : setUsername(u)
    \/ \E e \in Emails : setEmail(e)
    \/ \E pw \in Passwords : setPassword(pw)
    \/ \E o \in Otps : setOtp(o)
    \/ toggleRegister
    \/ handleSubmit
    \/ handleOtpLogin
    \/ \E rq \in BagToSet(inflight), res \in OtpResponses : registerRequestResume(rq, res)
    \/ \E rq \in BagToSet(inflight), res \in OtpResponses : registerVerifyResume(rq, res)
    \/ \E rq \in BagToSet(inflight), res \in OtpResponses : loginRequestResume(rq, res)
    \/ \E rq \in BagToSet(inflight), res \in OtpResponses : handleOtpLoginResume(rq, res)

Spec == Init /\ [][Next]_vars

\* ------------------------------------------------------------------------
\* validatePassword on its own
\* ------------------------------------------------------------------------
\* characters the inputs are built from: a lower-case and an upper-case
\* letter, a digit, an allowed symbol, and three characters outside the
\* bracket expression (space, backslash, line feed)
PwAlphabet == {"a", "Z", "7", "#", " ", "\\", "\n"}

RECURSIVE Repeat(_, _)
Repeat(c, n) == IF n = 0 THEN <<>> ELSE <<c>> \o Repeat(c, n - 1)

\* at most one character, a run of one character, at most one character
PwEnds == {<<>>} \cup {<<c>> : c \in PwAlphabet}
PwInputs ==
    {h \o Repeat(c, n) \o t : h \in PwEnds, t \in PwEnds,
                              c \in PwAlphabet, n \in 0..MaxPad}

InitPw ==
    /\ storage = ""
    /\ isLoggedIn = FALSE
    /\ isAdmin = FALSE
    /\ token = storage
    /\ view = "market-overview"
    /\ me = MountEffect(storage)
    /\ LoginFresh
    /\ inflight = EmptyBag
    /\ accepted = {}
    /\ viaLogin = FALSE
    /\ vp \in {[input |-> s, by |-> "none", result |-> FALSE] : s \in PwInputs}
    /\ ViewLayerIdle

\* Login.jsx calls its validatePassword
validateInLogin ==
    /\ vp.by = "none"
    /\ vp' = [vp EXCEPT !.by = "Login", !.result = validatePassword(vp.input)]
    /\ UNCHANGED <<storage, appVars, me, loginVars, inflight,
                   accepted, viaLogin, viewLayer>>

\* UserProfile (Portfolio.jsx) calls its validatePassword
validateInUserProfile ==
    /\ vp.by = "none"
    /\ vp' = [vp EXCEPT !.by = "UserProfile",
                        !.result = UserProfile_validatePassword(vp.input)]
    /\ UNCHANGED <<storage, appVars, me, loginVars, inflight,
                   accepted, viaLogin, viewLayer>>

NextPw == validateInLogin \/ validateInUserProfile

SpecPw == InitPw /\ [][NextPw]_vars

\* ------------------------------------------------------------------------
\* The components behind the login, on their own: the requests they send
\* ------------------------------------------------------------------------
\* requests of fetchPrediction and PortfolioFixed in flight at a time
MaxAwaited == 2

\* what the session flow owns, left alone by the view components
sessionFrame == <<storage, isLoggedIn, isAdmin, token, me, loginVars,
                  inflight, accepted, viaLogin, vp>>

Stocks == {"RELIANCE", "TCS"}
Tickers == {"", "INFY"}
ForecastDays == {"30", "60", "90"}
PortfolioIds == {"1", "2"}
OldPasswords == {"", "old-pw"}
Quantities == {0, 1}
ViewAnswers == {"ok", "rejected", "network"}

MarketOverviewRequest == ViewRequest("GET", "/api/market-overview", <<>>, None)
MarketSentimentRequest == ViewRequest("GET", "/api/market-sentiment", <<>>, None)
TechnicalAnalysisRequest(symbol) ==
    ViewRequest("GET", "/api/technical-analysis", <<symbol>>, None)
HoldingsRequest ==
    ViewRequest("GET", "/api/portfolio/holdings", <<"user_id=1">>, None)
AddRequest == ViewRequest("POST", "/api/portfolio/add", <<>>, None)
DeleteRequest(id) == ViewRequest("DELETE", "/api/portfolio", <<id>>, None)
PredictRequest(symbol, days) == ViewRequest("GET", "/predict", <<symbol, days>>, None)
FetchUserRequest(t) == ViewRequest("GET", "/me", <<>>, t)
ChangePasswordRequest(t) == ViewRequest("POST", "/change-password", <<>>, t)

\* a session restored by /me (token "t1", no administrator), with
\* MarketOverview mounted and its effect run
InitViews ==
    /\ storage = "t1"
    /\ isLoggedIn = TRUE
    /\ isAdmin = FALSE
    /\ token = storage
    /\ view = "market-overview"
    /\ me = [state |-> "done", t |-> storage]
    /\ LoginFresh
    /\ inflight = EmptyBag
    /\ accepted = {storage}
    /\ viaLogin = FALSE
    /\ vp = VpIdle
    /\ sent = MarketOverviewRequest
    /\ awaited = EmptyBag
    /\ loading = FALSE
    /\ selectedStock = InitialStock
    /\ profile = ProfileFresh
    /\ technical = TechnicalFresh
    /\ prediction = PredictionFresh
    /\ portfolio = PortfolioFresh

\* the request of the mount effect of the component that App renders for v;
\* prev when that component sends none ("main" renders the predictor,
\* UserProfile.fetchUser returns without a token)
MountRequest(v, prev) ==
    CASE v = "market-overview" -> MarketOverviewRequest
      [] v = "sentiment" -> MarketSentimentRequest
      [] v = "technical" -> TechnicalAnalysisRequest(InitialStock)
      [] v = "portfolio" -> HoldingsRequest
      [] v = "profile" ->
            IF Truthy(storage) THEN FetchUserRequest(storage) ELSE prev
      [] OTHER -> prev

\* the requests in reqs of kind k become requests of kind stale
Retire(reqs, k, stale) ==
    IF ~BagIn(k, reqs) THEN reqs
    ELSE (reqs (-) [x \in {k} |-> CopiesIn(k, reqs)])
            (+) [x \in {stale} |-> CopiesIn(k, reqs)]

\* the component that was rendered unmounts: the setters that its pending
\* requests call after their await no longer take effect
Unmounted(reqs) ==
    Retire(Retire(reqs, "change", "changeUnmounted"), "fetchUser", "fetchUserUnmounted")

\* the requests awaited once the component for v has mounted
MountAwaited(v, reqs) ==
    IF v = "profile" /\ Truthy(storage) THEN reqs (+) SetToBag({"fetchUser"}) ELSE reqs

\* TechnicalAnalysis.fetchTechnicalAnalysis(symbol) up to its await
TechnicalFetching(t, symbol) ==
    [t EXCEPT !.loading = TRUE, !.error = "",
              !.pending = @ (+) SetToBag({symbol})]

\* a navigation button: setView(v), and the component for v mounts
showView(v) ==
    /\ isLoggedIn
    /\ view # v
    /\ (v = "profile" /\ Truthy(storage)) => BagCardinality(awaited) < MaxAwaited
    /\ view' = v
    /\ sent' = MountRequest(v, sent)
    /\ awaited' = MountAwaited(v, Unmounted(awaited))
    /\ selectedStock' = InitialStock
    /\ profile' = ProfileFresh
    /\ technical' = IF v = "technical"
                    THEN TechnicalFetching(TechnicalFresh, InitialStock)
                    ELSE TechnicalFresh
    /\ UNCHANGED <<sessionFrame, portfolio, prediction, loading>>

\* the Refresh button of MarketOverview, MarketSentiment, TechnicalAnalysis
\* and PortfolioFixed: the fetch function of the current render
refresh ==
    /\ isLoggedIn
    /\ view \in {"market-overview", "sentiment", "technical", "portfolio"}
    /\ IF view = "technical"
       THEN \* disabled={loading}
            /\ ~technical.loading
            /\ BagCardinality(technical.pending) < MaxAwaited
            /\ sent' = TechnicalAnalysisRequest(selectedStock)
            /\ technical' = TechnicalFetching(technical, selectedStock)
       ELSE /\ sent' = MountRequest(view, sent)
            /\ UNCHANGED technical
    /\ UNCHANGED <<sessionFrame, portfolio, prediction, profile, view, awaited, loading, selectedStock>>

\* the setInterval callback of MarketOverview, MarketSentiment and
\* TechnicalAnalysis: the fetch function of the render that mounted
\* the stock that the interval callback of TechnicalAnalysis asks for: the
\* default value of symbol in the closure of the first render, whatever the
\* selection of the current render
IntervalStock(current) == InitialStock

autoRefresh ==
    /\ isLoggedIn
    /\ view \in {"market-overview", "sentiment", "technical"}
    /\ IF view = "technical"
       THEN /\ BagCardinality(technical.pending) < MaxAwaited
            /\ sent' = TechnicalAnalysisRequest(IntervalStock(selectedStock))
            /\ technical' = TechnicalFetching(technical, IntervalStock(selectedStock))
       ELSE /\ sent' = MountRequest(view, sent)
            /\ UNCHANGED technical
    /\ UNCHANGED <<sessionFrame, portfolio, prediction, profile, view, awaited, loading, selectedStock>>

\* TechnicalAnalysis: onChange of the stock select
handleStockChange(newStock) ==
    /\ isLoggedIn
    /\ view = "technical"
    /\ newStock # selectedStock
    /\ ~technical.loading
    /\ BagCardinality(technical.pending) < MaxAwaited
    /\ selectedStock' = newStock
    /\ sent' = TechnicalAnalysisRequest(newStock)
    /\ technical' = TechnicalFetching(technical, newStock)
    /\ UNCHANGED <<sessionFrame, portfolio, prediction, profile, view, awaited, loading>>

\* fetchTechnicalAnalysis(symbol) after its await
technicalResume(symbol, answer) ==
    /\ BagIn(symbol, technical.pending)
    /\ technical' =
          [technical EXCEPT
              !.pending = @ (-) SetToBag({symbol}),
              !.data = IF answer = "ok" THEN symbol ELSE @,
              !.error = IF answer = "ok" THEN @
                        ELSE IF answer = "rejected" THEN MsgTechnicalFallback
                        ELSE MsgNoConnection,
              !.loading = FALSE]
    /\ UNCHANGED <<sessionFrame, portfolio, prediction, profile, view, sent, awaited, loading, selectedStock>>

\* App.fetchPrediction up to its await, called by SearchBar.submit; the
\* submit button is disabled while loading
fetchPrediction(symbol, futureDays) ==
    /\ isLoggedIn
    /\ view = "main"
    /\ ~loading
    /\ BagCardinality(awaited) < MaxAwaited
    /\ IF symbol = ""
       THEN /\ prediction' = [forecast |-> "empty", error |-> MsgNoTicker]
            /\ UNCHANGED <<sent, awaited, loading>>
       ELSE /\ prediction' = [forecast |-> "empty", error |-> ""]
            /\ loading' = TRUE
            /\ sent' = PredictRequest(symbol, futureDays)
            /\ awaited' = awaited (+) SetToBag({"predict"})
    /\ UNCHANGED <<sessionFrame, portfolio, technical, profile, view, selectedStock>>

\* what /predict can be answered with: 2xx with a predictions list that has
\* rows or is empty, 2xx with a body that has no predictions list, not 2xx,
\* no answer
PredictAnswers == {"rows", "empty", "malformed", "rejected", "network"}

\* forecast and error after the await, from their values p before it
PredictionAfter(answer, p) ==
    CASE answer = "rows" -> [p EXCEPT !.forecast = "rows"]
      [] answer = "empty" -> [p EXCEPT !.forecast = "empty"]
      [] OTHER -> [p EXCEPT !.error = MsgPredictionFailed]

\* loading after the await: finally { setLoading(false) }; a variant that
\* calls setLoading(false) at the end of the try block only
LoadingAfterSuccessOnly(answer, l) == IF answer \in {"rows", "empty"} THEN FALSE ELSE l

LoadingAfter(answer, l) == FALSE

\* fetchPrediction after its await
fetchPredictionResume(answer) ==
    /\ BagIn("predict", awaited)
    /\ awaited' = awaited (-) SetToBag({"predict"})
    /\ prediction' = PredictionAfter(answer, prediction)
    /\ loading' = LoadingAfter(answer, loading)
    /\ UNCHANGED <<sessionFrame, portfolio, technical, profile, view, sent, selectedStock>>

\* PortfolioFixed.addToPortfolio up to its await
addToPortfolio(symbol, avgPrice, quantity) ==
    /\ isLoggedIn
    /\ view = "portfolio"
    /\ BagCardinality(awaited) < MaxAwaited
    /\ IF symbol = "" \/ avgPrice = "" \/ quantity <= 0
       THEN UNCHANGED <<sent, awaited>>
       ELSE /\ sent' = AddRequest
            /\ awaited' = awaited (+) SetToBag({"add"})
    /\ UNCHANGED <<sessionFrame, portfolio, prediction, technical, profile, view, loading, selectedStock>>

\* PortfolioFixed.removeFromPortfolio up to its await; confirmed is the
\* answer to confirm()
removeFromPortfolio(portfolioId, confirmed) ==
    /\ isLoggedIn
    /\ view = "portfolio"
    /\ BagCardinality(awaited) < MaxAwaited
    /\ IF ~confirmed
       THEN UNCHANGED <<sent, awaited>>
       ELSE /\ sent' = DeleteRequest(portfolioId)
            /\ awaited' = awaited (+) SetToBag({"remove"})
    /\ UNCHANGED <<sessionFrame, portfolio, prediction, technical, profile, view, loading, selectedStock>>

\* addToPortfolio and removeFromPortfolio after their await: an ok answer
\* calls fetchPortfolio()
portfolioResume(which, answer) ==
    /\ which \in {"add", "remove"}
    /\ BagIn(which, awaited)
    /\ awaited' = awaited (-) SetToBag({which})
    /\ sent' = IF answer = "ok" THEN HoldingsRequest ELSE sent
    /\ UNCHANGED <<sessionFrame, portfolio, prediction, technical, profile, view, loading, selectedStock>>

\* UserProfile.fetchUser after its await
FetchUserMessage(res) ==
    IF FetchThrows(res) THEN FetchMessage(res) ELSE Or3(res.detail, None, MsgUserFallback)

fetchUserResume(kind, res) ==
    /\ kind \in {"fetchUser", "fetchUserUnmounted"}
    /\ BagIn(kind, awaited)
    /\ awaited' = awaited (-) SetToBag({kind})
    /\ profile' = IF kind = "fetchUser" /\ Failed(res)
                  THEN [profile EXCEPT !.error = FetchUserMessage(res)]
                  ELSE profile
    /\ UNCHANGED <<sessionFrame, portfolio, prediction, technical, view, sent, loading, selectedStock>>

\* UserProfile: onChange of the two password inputs; maxLength={20}
setOldPassword(o) ==
    /\ isLoggedIn
    /\ view = "profile"
    /\ o # profile.oldPassword
    /\ profile' = [profile EXCEPT !.oldPassword = o]
    /\ UNCHANGED <<sessionFrame, portfolio, prediction, technical, view, sent, awaited, loading, selectedStock>>

setNewPassword(pw) ==
    /\ isLoggedIn
    /\ view = "profile"
    /\ pw # profile.newPassword
    /\ Len(pw) <= MaxRepeat
    /\ profile' = [profile EXCEPT !.newPassword = pw]
    /\ UNCHANGED <<sessionFrame, portfolio, prediction, technical, view, sent, awaited, loading, selectedStock>>

\* the browser's constraint validation of the change-password form:
\* required, minLength, maxLength, pattern
ProfileFormValid ==
    /\ profile.oldPassword # ""
    /\ profile.newPassword # <<>>
    /\ Len(profile.newPassword) >= MinRepeat
    /\ Len(profile.newPassword) <= MaxRepeat
    /\ PatternAttributeOk(profile.newPassword)

\* UserProfile.handleChangePassword: what it does for the new password
\* entered and the token read from localStorage
ChangePasswordStepTokenOnly(pw, t) ==
    IF ~Truthy(t) THEN "no-token" ELSE "send"

ChangePasswordStep(pw, t) ==
    IF ~UserProfile_validatePassword(pw) THEN "format"
    ELSE IF ~Truthy(t) THEN "no-token"
    ELSE "send"

\* UserProfile.handleChangePassword up to its await
handleChangePassword ==
    /\ isLoggedIn
    /\ view = "profile"
    /\ ProfileFormValid
    /\ BagCardinality(awaited) < MaxAwaited
    /\ LET step == ChangePasswordStep(profile.newPassword, storage) IN
        IF step = "send"
        THEN /\ profile' = [profile EXCEPT !.error = "", !.success = ""]
             /\ sent' = ChangePasswordRequest(storage)
             /\ awaited' = awaited (+) SetToBag({"change"})
        ELSE /\ profile' = [profile EXCEPT
                                !.error = IF step = "format" THEN MsgPasswordFormat
                                          ELSE MsgNotLoggedIn,
                                !.success = ""]
             /\ UNCHANGED <<sent, awaited>>
    /\ UNCHANGED <<sessionFrame, portfolio, prediction, technical, view, loading, selectedStock>>

\* handleChangePassword after its await
ChangePasswordClears(res) == ~Failed(res)

changePasswordResume(kind, res) ==
    /\ kind \in {"change", "changeUnmounted"}
    /\ BagIn(kind, awaited)
    /\ awaited' = awaited (-) SetToBag({kind})
    /\ profile' = IF kind = "changeUnmounted" THEN profile
                  ELSE IF ChangePasswordClears(res)
                  THEN [profile EXCEPT !.success = MsgPasswordChanged,
                                       !.oldPassword = "", !.newPassword = <<>>]
                  ELSE [profile EXCEPT !.error = FailureMessage(res)]
    /\ UNCHANGED <<sessionFrame, portfolio, prediction, technical, view, sent, loading, selectedStock>>

\* the token key is removed from localStorage outside this page: another
\* tab of the application runs handleLogout
storageCleared ==
    /\ isLoggedIn
    /\ Truthy(storage)
    /\ storage' = ""
    /\ UNCHANGED <<isLoggedIn, isAdmin, token, me, loginVars, inflight, accepted,
                   viaLogin, vp, view, viewLayer>>

NextViews ==
    \/ \E v \in Views : showView(v)
    \/ refresh
    \/ autoRefresh
    \/ \E newStock \in Stocks : handleStockChange(newStock)
    \/ \E symbol \in Stocks, answer \in ViewAnswers : technicalResume(symbol, answer)
    \/ \E symbol \in Tickers, futureDays \in ForecastDays :
            fetchPrediction(symbol, futureDays)
    \/ \E answer \in PredictAnswers : fetchPredictionResume(answer)
    \/ \E quantity \in Quantities : addToPortfolio("TCS", "100", quantity)
    \/ \E portfolioId \in PortfolioIds, confirmed \in BOOLEAN :
            removeFromPortfolio(portfolioId, confirmed)
    \/ \E which \in {"add", "remove"}, answer \in ViewAnswers :
            portfolioResume(which, answer)
    \/ \E kind \in {"fetchUser", "fetchUserUnmounted"}, res \in OtpResponses :
            fetchUserResume(kind, res)
    \/ \E o \in OldPasswords : setOldPassword(o)
    \/ \E pw \in Passwords : setNewPassword(pw)
    \/ handleChangePassword
    \/ \E kind \in {"change", "changeUnmounted"}, res \in OtpResponses :
            changePasswordResume(kind, res)
    \/ storageCleared

SpecViews == InitViews /\ [][NextViews]_vars

\* ------------------------------------------------------------------------
\* The Portfolio component (Portfolio.jsx, first part), mounted on its own:
\* App imports it but its view router renders PortfolioFixed
\* ------------------------------------------------------------------------
Holdings == {"INFY", "TCS"}

\* everything but the Portfolio component
portfolioFrame ==
    <<sessionFrame, view, awaited, loading, selectedStock, profile, technical,
      prediction>>

PortfolioFetchRequest(t) == ViewRequest("GET", "/portfolio", <<>>, t)
PortfolioDeleteRequest(symbol, t) ==
    ViewRequest("DELETE", "/portfolio/delete", <<symbol>>, t)

\* one execution of the delete-selected handler: the array selected of the
\* render that was submitted, and the position of the symbol whose DELETE
\* is awaited
Run(order, next) == [order |-> order, next |-> next]

\* Portfolio.fetchPortfolio up to its await, for component state p
FetchingPortfolio(p) ==
    IF Truthy(storage)
    THEN [p EXCEPT !.error = "", !.fetching = @ + 1]
    ELSE [p EXCEPT !.error = ""]

\* Portfolio has mounted with a stored token and its effect has called
\* fetchPortfolio; the server holds both symbols
InitPortfolio ==
    /\ storage = "t1"
    /\ isLoggedIn = TRUE
    /\ isAdmin = FALSE
    /\ token = storage
    /\ view = "portfolio"
    /\ me = [state |-> "done", t |-> storage]
    /\ LoginFresh
    /\ inflight = EmptyBag
    /\ accepted = {storage}
    /\ viaLogin = FALSE
    /\ vp = VpIdle
    /\ sent = PortfolioFetchRequest(storage)
    /\ awaited = EmptyBag
    /\ loading = FALSE
    /\ selectedStock = InitialStock
    /\ profile = ProfileFresh
    /\ technical = TechnicalFresh
    /\ prediction = PredictionFresh
    /\ portfolio = [PortfolioFresh EXCEPT !.fetching = 1, !.server = Holdings]

\* the requests of Portfolio that await their response
PortfolioPending == BagCardinality(portfolio.runs) + portfolio.fetching

\* fetchPortfolio after its await
portfolioFetched(answer) ==
    /\ portfolio.fetching > 0
    /\ portfolio' =
          [portfolio EXCEPT
              !.fetching = @ - 1,
              !.listed = IF answer = "ok" THEN portfolio.server ELSE @,
              !.error = IF answer = "ok" THEN @
                        ELSE IF answer = "rejected" THEN MsgPortfolioFallback
                        ELSE MsgFetchFailed]
    /\ UNCHANGED <<portfolioFrame, sent>>

\* onChange of the checkbox in the row of symbol
toggleSelected(symbol) ==
    /\ symbol \in portfolio.listed
    /\ portfolio' =
          [portfolio EXCEPT
              !.selected =
                  IF \E i \in 1..Len(@) : @[i] = symbol
                  THEN SelectSeq(@, LAMBDA s : s # symbol)
                  ELSE Append(@, symbol)]
    /\ UNCHANGED <<portfolioFrame, sent>>

\* onSubmit of the delete form up to its first await; the button is
\* disabled while nothing is selected
deleteSelected ==
    /\ portfolio.selected # <<>>
    /\ PortfolioPending < MaxAwaited
    /\ IF ~Truthy(storage)
       THEN /\ portfolio' = [portfolio EXCEPT !.error = MsgNotLoggedIn, !.success = ""]
            /\ UNCHANGED sent
       ELSE /\ portfolio' =
                  [portfolio EXCEPT
                      !.error = "", !.success = "",
                      !.runs = @ (+) SetToBag({Run(portfolio.selected, 1)})]
            /\ sent' = PortfolioDeleteRequest(portfolio.selected[1], storage)
    /\ UNCHANGED portfolioFrame

\* whether the loop goes on after an answer: a response that is not ok
\* throws, as does a fetch that fails
DeleteLoopContinuesAlways(answer) == TRUE

DeleteLoopContinues(answer) == answer = "ok"

\* the delete handler after the await of run's DELETE
deleteResume(run, answer) ==
    /\ BagIn(run, portfolio.runs)
    /\ LET symbol == run.order[run.next]
           rest == portfolio.runs (-) SetToBag({run})
           server == IF answer = "ok" THEN portfolio.server \ {symbol}
                     ELSE portfolio.server
       IN  IF ~DeleteLoopContinues(answer)
           THEN /\ portfolio' =
                      [portfolio EXCEPT
                          !.runs = rest,
                          !.error = IF answer = "rejected" THEN MsgFallback
                                    ELSE MsgFetchFailed]
                /\ UNCHANGED sent
           ELSE IF run.next < Len(run.order)
           THEN /\ portfolio' =
                      [portfolio EXCEPT
                          !.runs = rest (+) SetToBag({Run(run.order, run.next + 1)}),
                          !.server = server]
                /\ sent' = PortfolioDeleteRequest(run.order[run.next + 1], storage)
           ELSE /\ portfolio' =
                      FetchingPortfolio(
                          [portfolio EXCEPT
                              !.runs = rest,
                              !.server = server,
                              !.success = MsgDeleted,
                              !.selected = <<>>])
                /\ sent' = IF Truthy(storage) THEN PortfolioFetchRequest(storage)
                           ELSE sent
    /\ UNCHANGED portfolioFrame

\* the orders in which symbols can be selected
Selections ==
    {<<>>} \cup {<<a>> : a \in Holdings}
           \cup {pair \in Holdings \X Holdings : pair[1] # pair[2]}
Runs == {Run(order, next) : order \in Selections \ {<<>>}, next \in 1..Cardinality(Holdings)}

NextPortfolio ==
    \/ \E answer \in ViewAnswers : portfolioFetched(answer)
    \/ \E symbol \in Holdings : toggleSelected(symbol)
    \/ deleteSelected
    \/ \E run \in Runs, answer \in ViewAnswers : deleteResume(run, answer)

SpecPortfolio == InitPortfolio /\ [][NextPortfolio]_vars

\* ------------------------------------------------------------------------
\* Properties
\* ------------------------------------------------------------------------
\* the requests of a kind that await their response
Awaiting(kind) == {rq \in BagToSet(inflight) : rq.kind = kind}

\* this step takes the response of request rq
Answered(rq) == inflight' # inflight /\ inflight' = Remove(inflight, rq)

\* answers that make a handler's try block fail, that a handler takes as
\* success, and server rejections that carry a message
FailedResponses == {res \in OtpResponses : Failed(res)}
OkResponses == {res \in OtpResponses : ~Failed(res)}
TokenResponses == {res \in OkResponses : Truthy(res.access_token)}
MessageRejections ==
    {res \in OtpResponses :
        res.type = "object" /\ ~res.ok /\ (Truthy(res.detail) \/ Truthy(res.msg))}

\* the identity-check endpoint rejects the token: it answers, and not with 2xx
MeRejections == {res \in MeResponses : res.type # "network" /\ ~res.ok}

\* C1: when the mount effect ran with a stored token and /me rejects it, the
\* session is logged out (isLoggedIn and isAdmin false) and the token slot in
\* localStorage is empty afterwards.
C1_RejectedTokenIsCleared ==
    [][me.state = "pending" =>
          \A res \in MeRejections :
              MeResume(res) => (~isLoggedIn' /\ ~isAdmin' /\ storage' = "")]_vars

\* C2: in every state, isLoggedIn implies that token is non-empty and is a
\* token for which /me returned a body with a user since the page loaded.
C2_LoggedInTokenAccepted ==
    isLoggedIn => (Truthy(token) /\ token \in accepted)

C2_Witness == isLoggedIn /\ Truthy(token) /\ token \in accepted

\* C3 as stated: after handleOtpLogin was answered 2xx with an access_token,
\* the identity check of the page load it causes ends with the session logged
\* in with the stored token.
C3_VerifiedLoginIsLoggedIn ==
    [][(viaLogin /\ me.state = "pending") =>
          \A res \in MeResponses :
              MeResume(res) => (isLoggedIn' /\ token' = storage')]_vars

\* C3 amended: handleOtpLogin answered 2xx with an access_token stores exactly
\* that token, reloads the page unauthenticated and has the mount effect check
\* that token; the session then becomes logged in, with token equal to the
\* stored access_token, exactly when /me returns a user.
C3_VerifiedLoginStoresTokenAndRevalidates ==
    [][/\ \A rq \in Awaiting(KindLoginVerify), res \in TokenResponses :
            handleOtpLoginResume(rq, res)
                => /\ storage' = res.access_token
                   /\ me' = [state |-> "pending", t |-> res.access_token]
                   /\ ~isLoggedIn'
                   /\ viaLogin'
       /\ (viaLogin /\ me.state = "pending") =>
            \A res \in MeResponses :
                MeResume(res)
                    => /\ isLoggedIn' = UserReturned(res)
                       /\ isLoggedIn' => (token' = me.t /\ storage' = me.t)]_vars

C3_Witness == viaLogin /\ isLoggedIn /\ token = storage /\ Truthy(token)

\* C4: a failed OTP verification (login or registration; non-2xx answer,
\* unreadable body or network error) leaves otpStep, isRegister, username,
\* email, password, the entered otp, the token slot and the session as they
\* were, and shows the failure, so the same form can be submitted again.
C4_FailedVerifyPreservesFlow ==
    [][\A rq \in Awaiting(KindLoginVerify) \cup Awaiting(KindRegisterVerify) :
          Answered(rq) => \A res \in FailedResponses :
          (handleOtpLoginResume(rq, res) \/ registerVerifyResume(rq, res))
              => /\ UNCHANGED <<otpStep, isRegister, username, email, password, otp>>
                 /\ UNCHANGED <<storage, isLoggedIn, isAdmin, token>>
                 /\ rq.live => (error' = FailureMessage(res) /\ ~isLoggedIn')]_vars

C4_Witness ==
    /\ otpStep /\ otp # "" /\ ~isLoggedIn
    /\ error = DetailOther
    /\ inflight = EmptyBag

\* C5: handleLogout, from whatever state it is invoked and without any
\* request, ends with isLoggedIn and isAdmin false, token empty and the
\* token slot empty.
C5_LogoutClearsSession ==
    [][handleLogout
          => /\ ~isLoggedIn' /\ ~isAdmin'
             /\ token' = "" /\ storage' = ""
             /\ UNCHANGED <<me, inflight>>]_vars

C5_Witness ==
    /\ me.state = "done" /\ me.t \in accepted
    /\ ~isLoggedIn /\ ~isAdmin /\ token = "" /\ storage = ""

\* C6: when the mount effect found the token slot empty, it issued no /me
\* request, and the session is logged out.
C6_NoTokenNoRequest ==
    ~Truthy(me.t) => (me.state = "none" /\ ~isLoggedIn /\ ~isAdmin)

C6_Witness == me.t = "" /\ me.state = "none" /\ ~isLoggedIn /\ otpStep

\* C7: a /me answer that is not 2xx, whatever its body, and a network
\* failure never make isLoggedIn true.
C7_NonOkNeverAuthenticates ==
    [][me.state = "pending" =>
          \A res \in MeRejections \cup {NetworkError} :
              MeResume(res) => ~isLoggedIn']_vars

\* C8: when register-request-otp is rejected by the server with a message,
\* error is exactly that message (detail, else msg), otpStep does not advance
\* and the password-format message is not shown, also for a password that
\* fails validatePassword.
C8_RegistrationRejectionShown ==
    [][\A rq \in Awaiting(KindRegisterRequest) :
          (rq.live /\ Answered(rq)) => \A res \in MessageRejections :
          registerRequestResume(rq, res)
              => /\ error' = (IF Truthy(res.detail) THEN res.detail ELSE res.msg)
                 /\ error' # MsgPasswordFormat
                 /\ otpStep' = otpStep]_vars

C8_Witness ==
    /\ isRegister /\ ~otpStep /\ ~isLoggedIn
    /\ error = DetailExists
    /\ password # <<>> /\ ~validatePassword(password)
    /\ inflight = EmptyBag

C10_ValidatePasswordExact ==
    vp.by # "none" =>
        (vp.result <=>
            /\ Len(vp.input) >= 8
            /\ Len(vp.input) <= 20
            /\ \A i \in 1..Len(vp.input) :
                   vp.input[i] \in Letters \cup Digits \cup Symbols
            /\ \E i \in 1..Len(vp.input) : vp.input[i] \in Letters
            /\ \E i \in 1..Len(vp.input) : vp.input[i] \in Digits)

C10_Witness ==
    vp.by = "UserProfile" /\ vp.result /\ Len(vp.input) = 20

\* C11: the form enters the login OTP state (otpStep and not isRegister) only
\* in a step that takes a 2xx answer of login-request-otp, and enters the
\* registration OTP state (otpStep and isRegister) only in a step that takes
\* a 2xx answer of register-request-otp.
C11_OtpStateOnlyOnMatchingAck ==
    [][/\ (otpStep' /\ ~isRegister' /\ ~(otpStep /\ ~isRegister)) =>
            \E rq \in Awaiting(KindLoginRequest), res \in OkResponses :
                loginRequestResume(rq, res)
       /\ (otpStep' /\ isRegister' /\ ~(otpStep /\ isRegister)) =>
            \E rq \in Awaiting(KindRegisterRequest), res \in OkResponses :
                registerRequestResume(rq, res)]_vars

\* C12: the toggle button leaves otpStep false, the entered otp empty and
\* error empty, whatever the state before.
C12_ToggleClearsOtpState ==
    [][toggleRegister => (~otpStep' /\ otp' = "" /\ error' = "")]_vars

\* C13: register-verify-otp answered 2xx leaves the login form (isRegister
\* false, otpStep false, otp empty) with the registration message, and no
\* registration operation (submitting the registration form or its OTP form,
\* either answer, the toggle) changes the token slot, token, isLoggedIn or
\* isAdmin.
C13_RegistrationNeverAuthenticates ==
    [][/\ \A rq \in Awaiting(KindRegisterVerify) :
            (rq.live /\ Answered(rq)) => \A res \in OkResponses :
                registerVerifyResume(rq, res)
                    => /\ ~isRegister' /\ ~otpStep' /\ otp' = ""
                       /\ error' = MsgRegistered
       /\ \A rq \in Awaiting(KindRegisterVerify) \cup Awaiting(KindRegisterRequest) :
            Answered(rq) =>
                \/ UNCHANGED <<storage, isLoggedIn, isAdmin, token>>
                \/ \A res \in OtpResponses :
                      ~(registerVerifyResume(rq, res) \/ registerRequestResume(rq, res))
       /\ ((isRegister /\ handleSubmit) \/ toggleRegister)
            => UNCHANGED <<storage, isLoggedIn, isAdmin, token>>]_vars

C13_Witness ==
    /\ error = MsgRegistered /\ ~isRegister /\ ~otpStep /\ otp = ""
    /\ ~isLoggedIn /\ storage = "" /\ inflight = EmptyBag

\* C14: when login-request-otp is rejected by the server with a message,
\* error is exactly that message (detail, else msg), otpStep is as before,
\* and the token slot, token, isLoggedIn (false) and isAdmin are unchanged.
C14_LoginRejectionShownVerbatim ==
    [][\A rq \in Awaiting(KindLoginRequest) :
          (rq.live /\ Answered(rq)) => \A res \in MessageRejections :
          loginRequestResume(rq, res)
              => /\ error' = (IF Truthy(res.detail) THEN res.detail ELSE res.msg)
                 /\ otpStep' = otpStep
                 /\ UNCHANGED <<storage, isLoggedIn, isAdmin, token>>
                 /\ ~isLoggedIn']_vars

C14_Witness ==
    /\ ~isRegister /\ ~otpStep /\ ~isLoggedIn
    /\ error = ServerMsg
    /\ username # "" /\ email = ""
    /\ inflight = EmptyBag

\* the passwords of the model that match the pattern
MatchingPasswords == {pw \in Passwords : RegexTest(pw)}

\* C15: when register-request-otp is answered 2xx, the handler sets otpStep
\* and shows the OTP message exactly when the password it was submitted with
\* matches the pattern; otherwise otpStep is as before and the password-format
\* message is shown.  isRegister is left as it is.
C15_AcceptedRegistrationGatedByPassword ==
    [][\A rq \in Awaiting(KindRegisterRequest) :
          (rq.live /\ Answered(rq)) => \A res \in OkResponses :
          registerRequestResume(rq, res)
              => /\ isRegister' = isRegister
                 /\ IF rq.password \in MatchingPasswords
                    THEN otpStep' /\ error' = MsgOtpSentRegister
                    ELSE otpStep' = otpStep /\ error' = MsgPasswordFormat]_vars

C15_Witness ==
    /\ isRegister /\ otpStep /\ ~isLoggedIn
    /\ error = MsgOtpSentRegister
    /\ password \in MatchingPasswords

\* C16: the token slot changes only in handleLogout, which empties it, and in
\* handleOtpLogin's continuation for a 2xx answer with an access_token, which
\* sets it to that token; the mount effect and its continuation, the other
\* Login handlers and their continuations, the toggle, a failed
\* login-verify-otp and the view router leave it as it is.
C16_TokenSlotWriters ==
    [][storage' # storage =>
          \/ handleLogout /\ storage' = ""
          \/ \E rq \in Awaiting(KindLoginVerify), res \in TokenResponses :
                handleOtpLoginResume(rq, res) /\ storage' = res.access_token]_vars

C16_Witness ==
    /\ viaLogin /\ me.state = "pending" /\ ~isLoggedIn
    /\ Truthy(storage) /\ storage = me.t /\ token = storage

\* the four OTP endpoints
OtpEndpoints ==
    {KindRegisterRequest, KindRegisterVerify, KindLoginRequest, KindLoginVerify}

\* C17: a request sent to an endpoint other than the four OTP endpoints has
\* an Authorization: Bearer header that carries the stored token.
C17_RequestsCarryBearer ==
    (sent # NoRequest /\ sent.path \notin OtpEndpoints)
        => (Truthy(sent.authorization) /\ sent.authorization = storage)

\* the requests in flight whose Login component is still mounted
LiveInFlight == {rq \in BagToSet(inflight) : rq.live}

\* C18: the Login component never has more than one OTP request
\* (login-request-otp, register-request-otp or a verify call) in flight, even
\* when the form is submitted again before the previous response arrived.
C18_AtMostOneOtpRequestInFlight ==
    \A rq \in LiveInFlight :
        /\ CopiesIn(rq, inflight) = 1
        /\ \A other \in LiveInFlight : other = rq

\* C19: a response that arrives after the user toggled between login and
\* register, with Login still mounted, is applied to the current form: an
\* acknowledged login request sets otpStep and the login message on the
\* registration form, an answered registration request sets otpStep and/or
\* its message on the login form, a failure sets its message, and a
\* registration verify resets the form; the selected intent stays.
C19_LateResponseApplied ==
    [][/\ \A rq \in Awaiting(KindLoginRequest) :
            (rq.live /\ isRegister /\ Answered(rq)) => \A res \in OtpResponses :
                loginRequestResume(rq, res) =>
                    /\ isRegister'
                    /\ IF Failed(res)
                       THEN error' = FailureMessage(res) /\ otpStep' = otpStep
                       ELSE error' = MsgOtpSentLogin /\ otpStep'
       /\ \A rq \in Awaiting(KindRegisterRequest) :
            (rq.live /\ ~isRegister /\ Answered(rq)) => \A res \in OtpResponses :
                registerRequestResume(rq, res) =>
                    /\ ~isRegister'
                    /\ error' = RegisterRequestOutcomes[res, rq.password].error
                    /\ otpStep' = (otpStep \/ RegisterRequestOutcomes[res, rq.password].advance)
       /\ \A rq \in Awaiting(KindRegisterVerify) :
            (rq.live /\ ~isRegister /\ Answered(rq)) => \A res \in OtpResponses :
                registerVerifyResume(rq, res) =>
                    /\ ~isRegister'
                    /\ error' = IF Failed(res) THEN FailureMessage(res) ELSE MsgRegistered
                    /\ RegisterVerifyLeavesFlow(res) => (~otpStep' /\ otp' = "")]_vars

\* the registration form shows the OTP step and the login acknowledgement
C19_Witness ==
    /\ isRegister
    /\ otpStep
    /\ error = MsgOtpSentLogin
    /\ ~isLoggedIn
    /\ inflight = EmptyBag

\* the message of every failed answer
FailureMessageOf == [res \in FailedResponses |-> FailureMessage(res)]

\* the failed answers that can have turned the message before into after
FailuresShowing(before, after) ==
    {res \in FailedResponses : after = before \/ after = FailureMessageOf[res]}

\* C20: there is no automatic retry.  The number of requests in flight grows
\* only in a step of handleSubmit or handleOtpLogin, and then by exactly one
\* (so the requests issued never outnumber the submissions); a request
\* answered with a failure (non-2xx or network error) leaves the requests in
\* flight and nothing is sent in its place.  (Such a step sends nothing and
\* leaves all but the message and the requests in flight alone, which is
\* tested first.)
C20_NoAutomaticRetry ==
    [][/\ BagCardinality(inflight') > BagCardinality(inflight) =>
            /\ handleSubmit \/ handleOtpLogin
            /\ BagCardinality(inflight') = BagCardinality(inflight) + 1
       /\ (/\ BagCardinality(inflight') <= BagCardinality(inflight)
           /\ UNCHANGED <<storage, appVars, me, username, email, password,
                         otp, isRegister, otpStep>>) =>
          \/ /\ BagCardinality(inflight') = BagCardinality(inflight) - 1
             /\ \E rq \in BagToSet(inflight) :
                    CopiesIn(rq, inflight') = CopiesIn(rq, inflight) - 1
          \/ \A rq \in BagToSet(inflight) : \A res \in FailuresShowing(error, error') :
                ~(\/ registerRequestResume(rq, res)
                  \/ registerVerifyResume(rq, res)
                  \/ loginRequestResume(rq, res)
                  \/ handleOtpLoginResume(rq, res))]_vars

\* a network failure is shown and no request is pending
C20_Witness ==
    /\ LoginMounted
    /\ error = MsgFetchFailed
    /\ inflight = EmptyBag
    /\ storage = ""

\* a non-2xx answer whose body is absent or is not JSON
UnparsableRejection == Response("text", FALSE, None, None, None, None, FALSE)

\* C21: when register-request-otp, login-request-otp or login-verify-otp is
\* answered non-2xx with a body that is absent or not JSON, the user sees the
\* generic fallback message and isRegister, otpStep and otp are as before.
C21_UnparsableRejectionShowsFallback ==
    [][\A rq \in LiveInFlight :
          Answered(rq) =>
            ((\/ registerRequestResume(rq, UnparsableRejection)
              \/ loginRequestResume(rq, UnparsableRejection)
              \/ handleOtpLoginResume(rq, UnparsableRejection))
                => /\ error' = MsgFallback
                   /\ UNCHANGED <<isRegister, otpStep, otp>>)]_vars

\* C22: handleChangePassword sends no change-password request and shows an
\* error when the new password fails validatePassword or when no token is
\* stored; when the server rejects the change the entered old and new
\* passwords are kept; and both fields are cleared together only by a 2xx
\* response to a change-password request.
C22_ChangePasswordGuardedAndKept ==
    [][/\ (handleChangePassword
            /\ (~RegexTest(profile.newPassword) \/ ~Truthy(storage))) =>
                /\ UNCHANGED <<sent, awaited>>
                /\ profile'.error =
                      (IF ~RegexTest(profile.newPassword) THEN MsgPasswordFormat
                       ELSE MsgNotLoggedIn)
       /\ \A res \in MessageRejections :
            changePasswordResume("change", res) =>
                /\ profile'.oldPassword = profile.oldPassword
                /\ profile'.newPassword = profile.newPassword
                /\ profile'.error = RejectionMessage(res)
       /\ (/\ view' = view
           /\ profile.oldPassword # "" /\ profile.newPassword # <<>>
           /\ profile'.oldPassword = "" /\ profile'.newPassword = <<>>) =>
                \E res \in OkResponses : changePasswordResume("change", res)]_vars

\* the change-password form holds a new password without a digit, the format
\* message is shown and nothing was sent to the change-password endpoint
C22_Witness ==
    /\ view = "profile"
    /\ profile.newPassword = NoDigitPassword
    /\ profile.oldPassword # ""
    /\ profile.error = MsgPasswordFormat
    /\ sent.path # "/change-password"
    /\ ~BagIn("change", awaited)

\* C23: handleOtpLogin changes the token slot only for a 2xx answer that
\* carries a non-empty access_token, which it stores.  A 2xx answer without
\* access_token leaves the slot as it was, and still ends the OTP step and
\* reloads the page, whose mount effect then runs with the token stored
\* before, if any.  A failed answer leaves the slot alone.  (A step of the
\* first two kinds ends the OTP step, one of the third removes the request.)
C23_VerifyWritesTokenOnlyIfPresent ==
    [][\A rq \in Awaiting(KindLoginVerify) :
          /\ ~otpStep' => \A res \in TokenResponses :
                handleOtpLoginResume(rq, res) => storage' = res.access_token
          /\ ~otpStep' => \A res \in OkResponses \ TokenResponses :
                handleOtpLoginResume(rq, res) =>
                    /\ storage' = storage
                    /\ ~otpStep' /\ otp' = ""
                    /\ token' = storage
                    /\ me' = MountEffect(storage)
                    /\ inflight' = EmptyBag
          /\ Answered(rq) => \A res \in FailedResponses :
                handleOtpLoginResume(rq, res) => storage' = storage]_vars

\* the page was reloaded by onLogin and its mount effect asks /me about the
\* token that handleOtpLogin stored; the OTP step is over
C23_Witness ==
    /\ viaLogin
    /\ storage \in Tokens
    /\ me = [state |-> "pending", t |-> storage]
    /\ ~otpStep /\ otp = ""
    /\ inflight = EmptyBag

\* C24: in every reachable state an administrator is logged in: isAdmin
\* implies isLoggedIn.
C24_AdminIsLoggedIn == isAdmin => isLoggedIn

\* /me returned a user with is_admin
C24_Witness == isAdmin /\ isLoggedIn /\ me.state = "done" /\ me.t \in accepted

\* the component that App's view router renders
Rendered ==
    IF ~isLoggedIn THEN "Login"
    ELSE IF isAdmin /\ view = "admin" THEN "AdminPanel"
    ELSE IF view = "market-overview" THEN "MarketOverview"
    ELSE IF view = "sentiment" THEN "MarketSentiment"
    ELSE IF view = "technical" THEN "TechnicalAnalysis"
    ELSE IF view = "portfolio" THEN "PortfolioFixed"
    ELSE IF view = "profile" THEN "UserProfile"
    ELSE "SearchBar"

\* C25: view is always one of market-overview, main, sentiment, technical,
\* portfolio, profile, never "admin", so the view router never renders
\* AdminPanel, also for an administrator.
C25_ViewNeverAdmin ==
    /\ view \in {"market-overview", "main", "sentiment", "technical",
                 "portfolio", "profile"}
    /\ Rendered # "AdminPanel"

\* an administrator who has navigated away from the first view
C25_Witness ==
    /\ isLoggedIn /\ isAdmin
    /\ view = "profile"
    /\ Rendered = "UserProfile"

\* C26: TechnicalAnalysis, once no request is in flight and no failure is
\* shown, displays the data of the stock that is selected.
C26_DataIsOfSelectedStock ==
    (/\ view = "technical"
     /\ technical.pending = EmptyBag
     /\ technical.error = ""
     /\ technical.data # "none")
        => technical.data = selectedStock

\* C27: the periodic refresh of TechnicalAnalysis requests the stock that is
\* selected when the timer fires.
C27_AutoRefreshAsksSelectedStock ==
    [][(view = "technical" /\ autoRefresh)
          => sent' = TechnicalAnalysisRequest(selectedStock)]_vars

\* C28: fetchPrediction ends with loading false whatever the answer (rows, an
\* empty list, a body without a predictions list, not 2xx, no answer); with
\* an empty symbol it sends nothing and loading stays false; and a forecast
\* with rows and an error message never hold together.
C28_PredictionEndsNotLoading ==
    [][/\ \A answer \in PredictAnswers : fetchPredictionResume(answer) => ~loading'
       /\ \A futureDays \in ForecastDays :
            fetchPrediction("", futureDays) =>
                /\ UNCHANGED <<sent, awaited>>
                /\ ~loading /\ ~loading'
       /\ ~(prediction'.forecast = "rows" /\ prediction'.error # "")]_vars

\* a prediction failed: its message is shown, loading is false, no request
\* is pending
C28_Witness ==
    /\ view = "main"
    /\ prediction.error = MsgPredictionFailed
    /\ prediction.forecast = "empty"
    /\ ~loading
    /\ ~BagIn("predict", awaited)
    /\ sent.path = "/predict"

\* C29: Portfolio's delete-selected handler sends its DELETE requests one at
\* a time in selection order: submitting requests the first selected symbol,
\* an ok answer requests the next one.  It stops at the first failure:
\* nothing more is sent, the selection and the list shown are left as they
\* are and the portfolio is not fetched again.  Only the ok answer for the
\* last symbol makes the handler clear the selection and fetch the portfolio.
C29_DeleteSelectedStopsAtFirstFailure ==
    [][/\ deleteSelected =>
            /\ sent' = PortfolioDeleteRequest(portfolio.selected[1], storage)
            /\ portfolio'.runs = portfolio.runs (+) SetToBag({Run(portfolio.selected, 1)})
       /\ \A run \in BagToSet(portfolio.runs) :
            /\ \A answer \in {"rejected", "network"} :
                deleteResume(run, answer) =>
                    /\ portfolio'.runs = portfolio.runs (-) SetToBag({run})
                    /\ sent' = sent
                    /\ portfolio'.selected = portfolio.selected
                    /\ portfolio'.listed = portfolio.listed
                    /\ portfolio'.fetching = portfolio.fetching
                    /\ portfolio'.error # ""
            /\ deleteResume(run, "ok") =>
                    IF run.next < Len(run.order)
                    THEN /\ sent' = PortfolioDeleteRequest(run.order[run.next + 1], storage)
                         /\ portfolio'.selected = portfolio.selected
                         /\ portfolio'.fetching = portfolio.fetching
                    ELSE /\ sent' = PortfolioFetchRequest(storage)
                         /\ portfolio'.selected = <<>>
                         /\ portfolio'.fetching = portfolio.fetching + 1
                         /\ portfolio'.success = MsgDeleted
       /\ (\/ portfolio.selected # <<>> /\ portfolio'.selected = <<>>
           \/ portfolio'.fetching > portfolio.fetching) =>
            \/ \E symbol \in Holdings : toggleSelected(symbol)
            \/ \E run \in BagToSet(portfolio.runs) :
                    run.next = Len(run.order) /\ deleteResume(run, "ok")]_vars

\* a DELETE of the handler was rejected with two symbols selected: the first
\* is gone from the server and still listed and selected, the second is
\* still held, nothing is pending
C29_Witness ==
    /\ Len(portfolio.selected) = 2
    /\ portfolio.selected[1] \notin portfolio.server
    /\ portfolio.selected[1] \in portfolio.listed
    /\ portfolio.selected[2] \in portfolio.server
    /\ portfolio.error = MsgFallback
    /\ portfolio.success = ""
    /\ portfolio.runs = EmptyBag
    /\ portfolio.fetching = 0

====
